---- MODULE Spec2Model ----
(***************************************************************************)
(* Model of the retrieval-augmented extraction pipeline:                   *)
(*   embed.py  - split_sections, chunk_paragraphs, embed_text,             *)
(*               clear_collection and main (the index rebuild);            *)
(*   app.py    - embed_text and the /query handler.                        *)
(* Text is a sequence of one-character strings, so that strip, split,      *)
(* join, lower and the substring tests are computed, not assumed.          *)
(***************************************************************************)
EXTENDS Integers, Sequences, FiniteSets, TLC

VARIABLES
    raw,        \* chunker: the document text handed to the chunker
    max_chars,  \* chunker: the max_chars argument (CHUNK_MAX_CHARS)
    cpc,        \* chunker: "input" before the call, "chunked" after it
    sections,   \* chunker: the result of split_sections(raw)
    out_chunks, \* chunker: the chunk records main builds from the sections
    resp,       \* query: the last request's outcome, with what it was given
    gen_calls,  \* query: number of ollama.generate calls made so far
    index,      \* the collection: set of (id, document, metadata, embedding)
    pc,         \* rebuild: position of embed.py main
    run,        \* rebuild: the locals of the run in progress
    runs        \* rebuild: number of runs started

chunkVars == <<raw, max_chars, cpc, sections, out_chunks>>
queryVars == <<resp, gen_calls>>
indexVars == <<index, pc, run, runs>>
vars == <<raw, max_chars, cpc, sections, out_chunks, resp, gen_calls,
          index, pc, run, runs>>

---------------------------------------------------------------------------
(* Bounds of the model. *)

MaxDocLen == 7
MaxChars == 4
MaxPad == 2
MaxRetrieved == 2
MaxRuns == 3
MaxGenCalls == 2

---------------------------------------------------------------------------
(* Python str operations on sequences of characters. *)

UpperChars == {"A","B","C","D","E","F","G","H","I","J","K","L","M",
               "N","O","P","Q","R","S","T","U","V","W","X","Y","Z"}
LowerChars == {"a","b","c","d","e","f","g","h","i","j","k","l","m",
               "n","o","p","q","r","s","t","u","v","w","x","y","z"}
UpperSeq == <<"A","B","C","D","E","F","G","H","I","J","K","L","M",
              "N","O","P","Q","R","S","T","U","V","W","X","Y","Z">>
LowerSeq == <<"a","b","c","d","e","f","g","h","i","j","k","l","m",
              "n","o","p","q","r","s","t","u","v","w","x","y","z">>

\* str.isspace for one character
IsSpace(c) == c \in {" ", "\n", "\t", "\r"}

RECURSIVE LStrip(_)
LStrip(s) ==
    IF s = <<>> THEN s
    ELSE IF IsSpace(Head(s)) THEN LStrip(Tail(s)) ELSE s

RECURSIVE RStrip(_)
RStrip(s) ==
    IF s = <<>> THEN s
    ELSE IF IsSpace(s[Len(s)]) THEN RStrip(SubSeq(s, 1, Len(s) - 1)) ELSE s

\* str.strip()
Strip(s) == RStrip(LStrip(s))

\* sep.join(parts)
RECURSIVE Join(_, _)
Join(parts, sep) ==
    IF parts = <<>> THEN <<>>
    ELSE IF Len(parts) = 1 THEN parts[1]
    ELSE parts[1] \o sep \o Join(Tail(parts), sep)

\* s.split(sep): left to right, non-overlapping; cur is the piece being read
RECURSIVE SplitFrom(_, _, _)
SplitFrom(s, sep, cur) ==
    IF s = <<>> THEN <<cur>>
    ELSE IF Len(s) >= Len(sep) /\ SubSeq(s, 1, Len(sep)) = sep
         THEN <<cur>> \o SplitFrom(SubSeq(s, Len(sep) + 1, Len(s)), sep, <<>>)
         ELSE SplitFrom(Tail(s), sep, Append(cur, Head(s)))

Split(s, sep) == SplitFrom(s, sep, <<>>)

\* s.splitlines(): no empty last line for a text that ends in a line break
SplitLines(s) ==
    LET pieces == Split(s, <<"\n">>)
    IN  IF pieces[Len(pieces)] = <<>>
        THEN SubSeq(pieces, 1, Len(pieces) - 1)
        ELSE pieces

\* text.replace("\r\n", "\n")
RECURSIVE ReplaceCRLF(_)
ReplaceCRLF(s) ==
    IF s = <<>> THEN s
    ELSE IF Len(s) >= 2 /\ s[1] = "\r" /\ s[2] = "\n"
         THEN <<"\n">> \o ReplaceCRLF(SubSeq(s, 3, Len(s)))
         ELSE <<Head(s)>> \o ReplaceCRLF(Tail(s))

\* str.isupper(): some cased character, and no lower-case one
IsUpper(s) ==
    /\ \E i \in 1..Len(s) : s[i] \in UpperChars
    /\ \A i \in 1..Len(s) : s[i] \notin LowerChars

LowerChar(c) ==
    IF c \in UpperChars
    THEN LowerSeq[CHOOSE i \in 1..Len(UpperSeq) : UpperSeq[i] = c]
    ELSE c

\* str.lower()
Lower(s) == [i \in 1..Len(s) |-> LowerChar(s[i])]

\* m in s
Contains(s, m) ==
    \E i \in 1..(Len(s) - Len(m) + 1) : SubSeq(s, i, i + Len(m) - 1) = m

---------------------------------------------------------------------------
(* embed.py: the chunker. *)

MinHeaderLen == 3

is_section_header(line) ==
    LET s == Strip(line)
    IN  IF s = <<>> THEN FALSE
        ELSE IsUpper(s) /\ Len(s) >= MinHeaderLen

UNKNOWN == <<"U","N","K","N","O","W","N">>

\* flush(): the section under construction is appended when it has a name
\* and buffered lines; st = [sections, current_section, has_section, buf]
flush(st) ==
    [st EXCEPT
       !.sections = IF st.has_section /\ st.buf # <<>>
                    THEN Append(st.sections,
                                [name |-> st.current_section,
                                 text |-> Strip(Join(st.buf, <<"\n">>))])
                    ELSE st.sections,
       !.buf = <<>>]

\* one iteration of "for line in lines"
SectionStep(st, line) ==
    IF is_section_header(line)
    THEN [flush(st) EXCEPT !.current_section = Strip(line),
                           !.has_section = TRUE,
                           !.buf = <<Strip(line)>>]
    ELSE LET st1 == IF ~st.has_section
                    THEN [st EXCEPT !.current_section = UNKNOWN,
                                    !.has_section = TRUE,
                                    !.buf = <<>>]
                    ELSE st
         IN  [st1 EXCEPT !.buf = Append(st1.buf, line)]

RECURSIVE SectionLoop(_, _)
SectionLoop(st, lines) ==
    IF lines = <<>> THEN st
    ELSE SectionLoop(SectionStep(st, Head(lines)), Tail(lines))

split_sections(text) ==
    LET t     == Strip(ReplaceCRLF(text))
        lines == SplitLines(t)
        st0   == [sections |-> <<>>, current_section |-> <<>>,
                  has_section |-> FALSE, buf |-> <<>>]
    IN  flush(SectionLoop(st0, lines)).sections

SelectNonEmpty(parts) == SelectSeq(parts, LAMBDA p : Strip(p) # <<>>)

\* paragraphs = [p.strip() for p in text.split("\n\n") if p.strip()]
Paragraphs(text) ==
    LET parts == SelectNonEmpty(Split(Strip(text), <<"\n", "\n">>))
    IN  [i \in 1..Len(parts) |-> Strip(parts[i])]

ParaSep == <<"\n", "\n">>

\* mutant of added_len: the separator's two characters not counted
added_len_NoSeparator(p, current) == Len(p)

\* added_len = len(p) + (2 if current else 0)
added_len(p, current) == Len(p) + (IF current # <<>> THEN 2 ELSE 0)

\* one iteration of "for p in paragraphs"; st = [chunks, current, current_len]
PackStep(st, p, mc) ==
    IF st.current # <<>> /\ (st.current_len + added_len(p, st.current)) > mc
    THEN [chunks |-> Append(st.chunks, Strip(Join(st.current, ParaSep))),
          current |-> <<p>>,
          current_len |-> Len(p)]
    ELSE [chunks |-> st.chunks,
          current |-> Append(st.current, p),
          current_len |-> st.current_len + added_len(p, st.current)]

RECURSIVE PackLoop(_, _, _)
PackLoop(st, paras, mc) ==
    IF paras = <<>> THEN st
    ELSE PackLoop(PackStep(st, Head(paras), mc), Tail(paras), mc)

\* mutant of PackFinish: the chunk under construction is not appended
PackFinish_NoFlush(st) == st.chunks

\* the "if current:" after the loop
PackFinish(st) ==
    IF st.current # <<>>
    THEN Append(st.chunks, Strip(Join(st.current, ParaSep)))
    ELSE st.chunks

chunk_paragraphs(text, mc) ==
    PackFinish(PackLoop([chunks |-> <<>>, current |-> <<>>, current_len |-> 0],
                        Paragraphs(text), mc))

\* main, lines 119-135: the chunk texts with their metadata; chunk_idx is
\* the number of chunks appended so far
RECURSIVE BuildChunks(_, _, _)
BuildChunks(secs, mc, chunk_idx) ==
    IF secs = <<>> THEN <<>>
    ELSE LET section_chunks == chunk_paragraphs(Head(secs).text, mc)
             recs == [part_idx \in 1..Len(section_chunks) |->
                        [text |-> section_chunks[part_idx],
                         chunk |-> chunk_idx + part_idx - 1,
                         section |-> Head(secs).name,
                         section_part |-> part_idx - 1]]
         IN  recs \o BuildChunks(Tail(secs), mc, chunk_idx + Len(section_chunks))

---------------------------------------------------------------------------
(* The chunker applied to every document over a small alphabet. *)

DocAlphabet == {"a", "B", " ", "\n"}

Docs == UNION {[1..n -> DocAlphabet] : n \in 0..MaxDocLen}

NoLlm == [kind |-> "none", has_response |-> FALSE, response |-> <<>>]

NoResp == [kind |-> "none", answer |-> <<>>, debug |-> FALSE,
           reason |-> "none", emb_ok |-> FALSE, docs |-> <<>>,
           called |-> FALSE, llm |-> NoLlm, gen_before |-> 0]

NoRun == [id |-> 0, exists |-> FALSE, doc |-> <<>>, chunks |-> <<>>,
          embs |-> <<>>, before |-> {}, clear_failed |-> FALSE,
          error |-> "none"]

QueryIdle == resp = NoResp /\ gen_calls = 0

IndexIdle == index = {} /\ pc = "idle" /\ run = NoRun /\ runs = 0

ChunkIdle ==
    /\ raw = <<>> /\ max_chars = 0 /\ cpc = "idle"
    /\ sections = <<>> /\ out_chunks = <<>>

InitChunk ==
    /\ raw \in Docs
    /\ max_chars \in 0..MaxChars
    /\ cpc = "input"
    /\ sections = <<>>
    /\ out_chunks = <<>>
    /\ QueryIdle
    /\ IndexIdle

\* main, lines 117-135, with max_chars for MAX_CHARS
RunChunker ==
    /\ cpc = "input"
    /\ sections' = split_sections(raw)
    /\ out_chunks' = BuildChunks(split_sections(raw), max_chars, 0)
    /\ cpc' = "chunked"
    /\ UNCHANGED <<raw, max_chars>>
    /\ UNCHANGED queryVars
    /\ UNCHANGED indexVars

NextChunk == RunChunker

SpecChunk == InitChunk /\ [][NextChunk]_vars

---------------------------------------------------------------------------
(* Claims about the chunker (checked under SpecChunk). *)

RECURSIVE Flatten(_)
Flatten(ss) == IF ss = <<>> THEN <<>> ELSE Head(ss) \o Flatten(Tail(ss))

\* the paragraphs a chunk text holds, read back at the blank-line separator
ChunkParas(text) == Split(text, ParaSep)

\* the chunk records grouped into runs that start at section_part = 0
RECURSIVE GroupBySection(_, _)
GroupBySection(chs, acc) ==
    IF chs = <<>> THEN acc
    ELSE IF acc = <<>> \/ Head(chs).section_part = 0
         THEN GroupBySection(Tail(chs), Append(acc, <<Head(chs)>>))
         ELSE GroupBySection(Tail(chs),
                             [acc EXCEPT ![Len(acc)] = Append(@, Head(chs))])

\* the non-blank lines of a text, each trimmed
StrippedLines(text) ==
    LET ls == SelectNonEmpty(SplitLines(text))
    IN  [i \in 1..Len(ls) |-> Strip(ls[i])]

\* C8: every chunk that packs two or more paragraphs is at most max_chars
\* long (separators included); a chunk longer than max_chars is exactly one
\* paragraph, which alone exceeds max_chars.
C8_ChunkSizeBound ==
    cpc = "chunked" =>
        \A j \in 1..Len(out_chunks) :
            LET c  == out_chunks[j].text
                ps == ChunkParas(c)
            IN  /\ Len(ps) >= 2 => Len(c) <= max_chars
                /\ Len(c) > max_chars =>
                       /\ Len(ps) = 1
                       /\ Len(ps[1]) > max_chars
                       /\ \E i \in 1..Len(sections) :
                              \E k \in 1..Len(Paragraphs(sections[i].text)) :
                                  Paragraphs(sections[i].text)[k] = ps[1]

\* a chunk of two paragraphs that fills max_chars exactly, closed because
\* the next paragraph did not fit
C8_Witness ==
    /\ cpc = "chunked"
    /\ Len(out_chunks) >= 2
    /\ Len(ChunkParas(out_chunks[1].text)) >= 2
    /\ Len(out_chunks[1].text) = max_chars

\* C9: the sections hold every non-blank line of the document once and in
\* order; the chunks of a section, read in section_part order, hold that
\* section's trimmed non-empty paragraphs once and in order; every chunk
\* belongs to one section, and chunk indices count up from 0.
C9_ChunkingLossless ==
    cpc = "chunked" =>
        LET g == GroupBySection(out_chunks, <<>>)
        IN  /\ StrippedLines(raw) =
                   Flatten([i \in 1..Len(sections) |->
                               StrippedLines(sections[i].text)])
            /\ Len(g) = Len(sections)
            /\ \A i \in 1..Len(g) :
                   /\ \A k \in 1..Len(g[i]) :
                          /\ g[i][k].section = sections[i].name
                          /\ g[i][k].section_part = k - 1
                   /\ Flatten([k \in 1..Len(g[i]) |-> ChunkParas(g[i][k].text)])
                          = Paragraphs(sections[i].text)
            /\ \A j \in 1..Len(out_chunks) : out_chunks[j].chunk = j - 1

\* leading text without a header, then a headed section: one chunk each
C9_Witness ==
    /\ cpc = "chunked"
    /\ Len(sections) = 2
    /\ sections[1].name = UNKNOWN
    /\ Len(out_chunks) = 2
    /\ out_chunks[2].section = sections[2].name
    /\ out_chunks[2].chunk = 1

---------------------------------------------------------------------------
(* app.py: the /query handler. *)

TOP_K == 5

NOT_FOUND == <<"N","O","T","_","F","O","U","N","D">>

\* the separator of "\n\n---\n\n".join(docs)
ContextSep == <<"\n","\n","-","-","-","\n","\n">>

bad_markers ==
    { <<"r","u","l","e","s",":">>,
      <<"c","o","n","t","e","x","t",":">>,
      <<"q","u","e","s","t","i","o","n",":">>,
      <<"i","n","f","o","r","m","a","t","i","o","n"," ","e","x","t","r","a","c","t","i","o","n"," ","s","y","s","t","e","m">> }

\* docs = (results.get("documents") or [[]])[0]
RetrievedDocs(results) ==
    IF results.has_documents THEN results.documents ELSE <<>>

\* context = "\n\n---\n\n".join(docs) if docs else ""
Context(docs) == IF docs # <<>> THEN Join(docs, ContextSep) ELSE <<>>

\* mutant of ContextIsEmpty: tests the document list, not the joined text
ContextIsEmpty_DocsOnly(docs) == docs = <<>>

\* if not context.strip()
ContextIsEmpty(docs) == Strip(Context(docs)) = <<>>

\* answer = (llm_resp.get("response") or "").strip()
RawAnswer(llm) == Strip(IF llm.has_response THEN llm.response ELSE <<>>)

\* if answer.startswith('"') and answer.endswith('"') and len(answer) >= 2
StripQuotes(a) ==
    IF Len(a) >= 2 /\ a[1] = "\"" /\ a[Len(a)] = "\""
    THEN Strip(SubSeq(a, 2, Len(a) - 1))
    ELSE a

\* mutant of HasBadMarker: the markers compared without lower-casing
HasBadMarker_CaseSensitive(a) == \E m \in bad_markers : Contains(a, m)

\* any(m in answer.lower() for m in bad_markers)
HasBadMarker(a) == \E m \in bad_markers : Contains(Lower(a), m)

EchoGuard(a) == IF HasBadMarker(a) THEN NOT_FOUND ELSE a

\* mutant of EmptyGuard: the final empty test left out
EmptyGuard_Missing(a) == a

\* if not answer: answer = "NOT_FOUND"
EmptyGuard(a) == IF a = <<>> THEN NOT_FOUND ELSE a

PostProcess(llm) == EmptyGuard(EchoGuard(StripQuotes(RawAnswer(llm))))

\* The handler on the replies of its collaborators: emb_ok says whether the
\* embedding call returned a vector, results is the reply of
\* collection.query, llm the reply of ollama.generate were it called.
\* Returns the outcome; field called says whether generate was called.
Handle(emb_ok, results, llm, debug, gen) ==
    LET docs == RetrievedDocs(results)
        base == [NoResp EXCEPT !.gen_before = gen, !.debug = debug,
                               !.emb_ok = emb_ok]
    IN  IF ~emb_ok
        THEN [base EXCEPT !.kind = "error"]
        ELSE IF ContextIsEmpty(docs)
        THEN [base EXCEPT !.kind = "payload", !.answer = NOT_FOUND,
                          !.docs = docs,
                          !.reason = IF debug THEN "empty_context" ELSE "none"]
        ELSE IF llm.kind = "raise"
        THEN [base EXCEPT !.kind = "error", !.docs = docs,
                          !.called = TRUE, !.llm = llm]
        ELSE [base EXCEPT !.kind = "payload", !.answer = PostProcess(llm),
                          !.docs = docs, !.called = TRUE, !.llm = llm]

---------------------------------------------------------------------------
(* The handler on every reply of the collaborators from bounded sets. *)

PadAlphabet == {" ", "\""}

Pads == UNION {[1..n -> PadAlphabet] : n \in 0..MaxPad}

\* the middle of a raw model output: markers in several letter cases and
\* positions, near misses, plain answers
Mids ==
    { <<>>,
      <<" ">>,
      <<"P","y","t","h","o","n">>,
      <<"N","O","T","_","F","O","U","N","D">>,
      <<"r","u","l","e","s",":">>,
      <<"R","U","L","E","S",":">>,
      <<"x"," ","R","u","l","e","s",":"," ","y">>,
      <<"c","o","n","t","e","x","t",":">>,
      <<"a","C","o","n","t","e","x","t",":","b">>,
      <<"Q","u","e","s","t","i","o","n",":"," ","q">>,
      <<"q","U","E","S","T","I","O","N",":">>,
      <<"i","n","f","o","r","m","a","t","i","o","n"," ","e","x","t","r","a","c","t","i","o","n"," ","s","y","s","t","e","m">>,
      <<"a","n"," ","I","n","f","o","r","m","a","t","i","o","n"," ","E","x","t","r","a","c","t","i","o","n"," ","S","y","s","t","e","m",".">>,
      <<"r","u","l","e","s">>,
      <<"c","o","n","t","e","x","t"," ",":">>,
      <<"a","\"","b">>,
      <<"i","n","f","o","r","m","a","t","i","o","n"," ","e","x","t","r","a","c","t","i","o","n">> }

RawOutputs == {pre \o mid \o post : pre \in Pads, mid \in Mids, post \in Pads}

LlmReplies ==
    { [kind |-> "raise", has_response |-> FALSE, response |-> <<>>],
      [kind |-> "reply", has_response |-> FALSE, response |-> <<>>] }
    \cup { [kind |-> "reply", has_response |-> TRUE, response |-> r] :
             r \in RawOutputs }

\* document texts a retrieval may return
RetrievedTexts == { <<" ","\n">>, <<"a">> }

QueryResults ==
    { [has_documents |-> FALSE, documents |-> <<>>] }
    \cup { [has_documents |-> TRUE, documents |-> d] :
             d \in UNION {[1..n -> RetrievedTexts] : n \in 0..MaxRetrieved} }

InitQuery ==
    /\ resp = NoResp
    /\ gen_calls \in 0..MaxGenCalls
    /\ ChunkIdle
    /\ IndexIdle

\* one request served by the handler
HandleQuery ==
    /\ resp = NoResp
    /\ \E emb_ok \in BOOLEAN, results \in QueryResults, llm \in LlmReplies,
          debug \in BOOLEAN :
          LET r == Handle(emb_ok, results, llm, debug, gen_calls)
          IN  /\ resp' = r
              /\ gen_calls' = IF r.called THEN gen_calls + 1 ELSE gen_calls
    /\ UNCHANGED chunkVars
    /\ UNCHANGED indexVars

NextQuery == HandleQuery

SpecQuery == InitQuery /\ [][NextQuery]_vars

---------------------------------------------------------------------------
(* Claims about the /query handler (checked under SpecQuery). *)

Served == resp.kind # "none" /\ resp.emb_ok

\* every retrieved document is empty or whitespace
AllBlank(docs) == \A i \in 1..Len(docs) : Strip(docs[i]) = <<>>

NoGenerateCall == ~resp.called /\ gen_calls = resp.gen_before

\* C1 as stated: a retrieval that yields no documents or only whitespace
\* text is answered NOT_FOUND without a generate call.
C1_BlankRetrievalShortCircuits ==
    (Served /\ AllBlank(resp.docs)) =>
        /\ resp.kind = "payload"
        /\ resp.answer = NOT_FOUND
        /\ NoGenerateCall

\* C1 amended: a retrieval that yields no documents, or exactly one
\* document which is empty or whitespace (the joined context is then empty
\* or whitespace), is answered NOT_FOUND without a generate call: the count
\* of generate calls after the request equals the count before it.
C1_EmptyContextShortCircuits ==
    (Served /\ (resp.docs = <<>>
                \/ (Len(resp.docs) = 1 /\ Strip(resp.docs[1]) = <<>>))) =>
        /\ resp.kind = "payload"
        /\ resp.answer = NOT_FOUND
        /\ NoGenerateCall

\* a single whitespace document, after earlier generate calls
C1_Witness ==
    /\ Served
    /\ Len(resp.docs) = 1
    /\ resp.docs[1] # <<>>
    /\ Strip(resp.docs[1]) = <<>>
    /\ resp.answer = NOT_FOUND
    /\ resp.gen_before > 0

\* C5: a generate call that raises or returns no response ends the request
\* in an error, never in a payload; and NOT_FOUND is answered only for an
\* empty context, a model output of NOT_FOUND, a prompt echo or empty text.
C5_GenerationFailureSurfaces ==
    /\ (resp.called /\ (resp.llm.kind = "raise" \/ ~resp.llm.has_response))
           => resp.kind = "error"
    /\ (resp.kind = "payload" /\ resp.answer = NOT_FOUND) =>
           \/ ~resp.called
           \/ /\ resp.llm.has_response
              /\ \/ StripQuotes(Strip(resp.llm.response)) = NOT_FOUND
                 \/ StripQuotes(Strip(resp.llm.response)) = <<>>
                 \/ HasBadMarker(StripQuotes(Strip(resp.llm.response)))

\* C6: the answer of every payload is a non-empty string: the sentinel, or
\* the model output trimmed and with one pair of enclosing quotes removed.
C6_AnswerNonEmpty ==
    resp.kind = "payload" =>
        /\ resp.answer # <<>>
        /\ \/ resp.answer = NOT_FOUND
           \/ /\ resp.called
              /\ resp.llm.has_response
              /\ resp.answer = StripQuotes(Strip(resp.llm.response))

\* the model returned a pair of quotes around whitespace
C6_Witness ==
    /\ resp.kind = "payload"
    /\ resp.called
    /\ resp.llm.has_response
    /\ resp.llm.response = <<"\"", " ", "\"">>
    /\ resp.answer = NOT_FOUND

\* the raw output holds marker m at some position, in any letter case
RawHoldsMarker(rawo, m) ==
    \E i \in 1..(Len(rawo) - Len(m) + 1) :
        \A k \in 1..Len(m) : LowerChar(rawo[i + k - 1]) = m[k]

RawHasMarker(rawo) == \E m \in bad_markers : RawHoldsMarker(rawo, m)

\* C7: a raw model output that holds one of the markers, in any letter
\* case and at any position, is answered NOT_FOUND; one that holds none and
\* is non-empty after trimming and quote stripping is answered as it is
\* after that trimming and quote stripping.
C7_PromptEchoGuard ==
    (resp.kind = "payload" /\ resp.called /\ resp.llm.has_response) =>
        LET rawo == resp.llm.response
            kept == StripQuotes(Strip(rawo))
        IN  /\ RawHasMarker(rawo) => resp.answer = NOT_FOUND
            /\ (~RawHasMarker(rawo) /\ kept # <<>>) => resp.answer = kept

\* a quoted output with "Context:" inside other text
C7_Witness ==
    /\ resp.kind = "payload"
    /\ resp.called
    /\ resp.llm.has_response
    /\ resp.llm.response # <<>>
    /\ Head(resp.llm.response) = "\""
    /\ Contains(resp.llm.response, <<"C","o","n","t","e","x","t",":">>)
    /\ ~Contains(resp.llm.response, <<"c","o","n","t","e","x","t",":">>)
    /\ resp.answer = NOT_FOUND

---------------------------------------------------------------------------
(* embed.py: main, the index rebuild, one step per collaborator call; and *)
(* the /query handler reading the same collection.                         *)

MAX_CHARS == 900

DigitChars == <<"0","1","2","3","4","5","6","7","8","9">>

\* f"{i:04d}" for 0 <= i < 10000
Fmt04d(i) ==
    << DigitChars[((i \div 1000) % 10) + 1], DigitChars[((i \div 100) % 10) + 1],
       DigitChars[((i \div 10) % 10) + 1], DigitChars[(i % 10) + 1] >>

\* f"resume-{i:04d}"
ResumeId(i) == <<"r","e","s","u","m","e","-">> \o Fmt04d(i)

\* the reply of ollama.embeddings for a text: a vector, opaque
VectorOf(text) == [vector_of |-> text]

\* the source files of the runs: no file, an empty file, a blank file, and
\* documents of one, two and three chunks
IndexDocs ==
    { <<>>,
      <<" ","\n">>,
      <<"a">>,
      <<"b","\n","B","B","B">>,
      <<"a","\n","A","A","A","\n","B","B","B">> }

SourceFiles ==
    { [exists |-> FALSE, text |-> <<>>] }
    \cup { [exists |-> TRUE, text |-> d] : d \in IndexDocs }

\* the metadata dict of a chunk record
MetaOf(c) ==
    [source |-> "resume.txt", chunk |-> c.chunk, section |-> c.section,
     section_part |-> c.section_part]

\* the tuples the add call of run r is given; by names the run, to tell
\* its writes from those of earlier runs
NewEntries(r) ==
    { [id |-> ResumeId(i - 1), document |-> r.chunks[i].text,
       metadata |-> MetaOf(r.chunks[i]), embedding |-> r.embs[i],
       by |-> r.id] : i \in 1..Len(r.chunks) }

Ids(entries) == {e.id : e \in entries}

\* main, lines 111-141: the file is read and chunked
StartRun ==
    /\ pc \in {"idle", "done", "failed"}
    /\ runs < MaxRuns
    /\ runs' = runs + 1
    /\ \E f \in SourceFiles :
          IF ~f.exists
          THEN /\ run' = [NoRun EXCEPT !.id = runs + 1, !.before = index,
                                       !.error = "FileNotFoundError"]
               /\ pc' = "failed"
          ELSE /\ run' = [id |-> runs + 1, exists |-> TRUE, doc |-> f.text,
                          chunks |-> BuildChunks(split_sections(f.text),
                                                 MAX_CHARS, 0),
                          embs |-> <<>>, before |-> index,
                          clear_failed |-> FALSE, error |-> "none"]
               /\ pc' = "clear"
    /\ UNCHANGED index
    /\ UNCHANGED chunkVars
    /\ UNCHANGED queryVars

\* clear_collection: get the ids and delete them; an exception of get or
\* delete is swallowed and leaves the collection as it was
clear_collection ==
    /\ pc = "clear"
    /\ \/ /\ index' = {}
          /\ run' = run
       \/ /\ index' = index
          /\ run' = [run EXCEPT !.clear_failed = TRUE]
    /\ pc' = "embed"
    /\ UNCHANGED runs
    /\ UNCHANGED chunkVars
    /\ UNCHANGED queryVars

\* embed_text for the next chunk of the list comprehension of line 147: the
\* collaborator returns a vector, or none and RuntimeError ends the run
embed_text ==
    /\ pc = "embed"
    /\ Len(run.embs) < Len(run.chunks)
    /\ \/ /\ run' = [run EXCEPT !.embs =
                       Append(@, VectorOf(run.chunks[Len(run.embs) + 1].text))]
          /\ pc' = pc
       \/ /\ run' = [run EXCEPT !.error = "EmbeddingError"]
          /\ pc' = "failed"
    /\ UNCHANGED <<index, runs>>
    /\ UNCHANGED chunkVars
    /\ UNCHANGED queryVars

\* collection.add, line 149, one call with every tuple.  The store decides
\* what an empty batch and an id it already holds lead to: it raises, or it
\* accepts the batch and leaves the records it already holds as they are.
collection_add ==
    /\ pc = "embed"
    /\ Len(run.embs) = Len(run.chunks)
    /\ \/ /\ run.chunks # <<>>
          /\ index' = index \cup {e \in NewEntries(run) : e.id \notin Ids(index)}
          /\ run' = run
          /\ pc' = "done"
       \/ /\ run.chunks # <<>>
          /\ Ids(NewEntries(run)) \cap Ids(index) # {}
          /\ index' = index
          /\ run' = [run EXCEPT !.error = "DuplicateIDError"]
          /\ pc' = "failed"
       \/ /\ run.chunks = <<>>
          /\ index' = index
          /\ run' = run
          /\ pc' = "done"
       \/ /\ run.chunks = <<>>
          /\ index' = index
          /\ run' = [run EXCEPT !.error = "ValueError"]
          /\ pc' = "failed"
    /\ UNCHANGED runs
    /\ UNCHANGED chunkVars
    /\ UNCHANGED queryVars

\* the replies of collection.query: the documents of min(TOP_K, size)
\* records of the collection, in the order of their distances
Retrievals ==
    LET n == IF Cardinality(index) < TOP_K THEN Cardinality(index) ELSE TOP_K
    IN  { [i \in 1..n |-> es[i].document] :
            es \in {f \in [1..n -> index] :
                      \A i, j \in 1..n : i # j => f[i] # f[j]} }

IndexLlmReplies ==
    { [kind |-> "raise", has_response |-> FALSE, response |-> <<>>],
      [kind |-> "reply", has_response |-> TRUE, response |-> <<"a">>] }

\* a /query request served while the rebuild is at any of its steps
query ==
    /\ gen_calls < MaxGenCalls
    /\ \E emb_ok \in BOOLEAN, docs \in Retrievals, llm \in IndexLlmReplies :
          LET r == Handle(emb_ok, [has_documents |-> TRUE, documents |-> docs],
                          llm, FALSE, gen_calls)
          IN  /\ resp' = r
              /\ gen_calls' = IF r.called THEN gen_calls + 1 ELSE gen_calls
    /\ UNCHANGED chunkVars
    /\ UNCHANGED indexVars

Init ==
    /\ ChunkIdle
    /\ QueryIdle
    /\ IndexIdle

Next ==
    \/ StartRun
    \/ clear_collection
    \/ embed_text
    \/ collection_add
    \/ query

Spec == Init /\ [][Next]_vars

---------------------------------------------------------------------------
(* Claims about the rebuild (checked under Spec). *)

\* a record of the collection as the store holds it
Stored(e) ==
    [id |-> e.id, document |-> e.document, metadata |-> e.metadata,
     embedding |-> e.embedding]

\* C2: once a run completes, the collection holds exactly the tuples of
\* that run's chunks, also after a swallowed failure of the clearing step
\* (stated for the runs that wrote at least one chunk).
C2_IndexIsLastRun ==
    (pc = "done" /\ run.chunks # <<>>) =>
        {Stored(e) : e \in index} = {Stored(e) : e \in NewEntries(run)}

\* C3: a run ended by an embedding failure leaves the collection as it was
\* when the run started.
C3_EmbeddingFailureKeepsIndex ==
    (pc = "failed" /\ run.error = "EmbeddingError") => index = run.before

\* C4: a run over an existing document that yields zero chunks never
\* completes.
C4_EmptyDocumentRejected ==
    ~(pc = "done" /\ run.exists /\ run.chunks = <<>>)

\* C10: in every state the collection holds none or all of the tuples
\* written by the run in progress.
C10_NeverHalfPopulated ==
    LET mine == {e \in index : e.by = run.id}
    IN  mine = {} \/ Ids(mine) = Ids(NewEntries([run EXCEPT !.embs =
                        [i \in 1..Len(run.chunks) |-> VectorOf(run.chunks[i].text)]]))

====
